---- MODULE Spec2Model ----
(***************************************************************************)
(* JazzBridge (getmusic.py): feed entries -> (artist, album) -> catalog    *)
(* search -> link conversion -> result records -> output file.             *)
(*                                                                         *)
(* A Python str is a sequence of one-character strings, so that the        *)
(* regular expressions, strip(), split() and `in` of the title parsers are *)
(* computed character by character.                                        *)
(***************************************************************************)
EXTENDS Integers, Sequences, FiniteSets, TLC

(***************************************************************************)
(* Bounds of the model.                                                    *)
(***************************************************************************)
\* Longest title, in segments of TitleSegments, given to the two parsers.
MaxSegs == 4
\* Most entries the feeds of one run deliver, both sources together.
MaxEntries == 2
\* Longest path of a pageUrl, in segments of PathSegments.
MaxPathSegs == 4

(***************************************************************************)
(* Text primitives: str.strip, str.lower, `in`, str.split(sep, 1), re.     *)
(***************************************************************************)
SetMin(S) == CHOOSE m \in S : \A k \in S : m <= k
SetMax(S) == CHOOSE m \in S : \A k \in S : k <= m

\* What str.strip() removes and what \s matches.
Whitespace == {" ", "\t", "\n", "\r", "\f"}

UpperCase == <<"A", "B", "C", "D", "E", "F", "G", "H", "I", "J", "K", "L", "M",
               "N", "O", "P", "Q", "R", "S", "T", "U", "V", "W", "X", "Y", "Z">>
LowerCase == <<"a", "b", "c", "d", "e", "f", "g", "h", "i", "j", "k", "l", "m",
               "n", "o", "p", "q", "r", "s", "t", "u", "v", "w", "x", "y", "z">>

\* str.lower() of one character; re.IGNORECASE compares characters through it.
lower_char(c) ==
    IF \E k \in 1..26 : UpperCase[k] = c
    THEN LowerCase[CHOOSE k \in 1..26 : UpperCase[k] = c]
    ELSE c

str_lower(s) == [k \in 1..Len(s) |-> lower_char(s[k])]

str_strip(s) ==
    LET keep == {k \in 1..Len(s) : s[k] \notin Whitespace}
    IN  IF keep = {} THEN <<>> ELSE SubSeq(s, SetMin(keep), SetMax(keep))

\* sub occurs in s at position i.
OccursAt(s, sub, i) ==
    /\ i >= 1
    /\ i + Len(sub) - 1 <= Len(s)
    /\ \A k \in 1..Len(sub) : s[i + k - 1] = sub[k]

\* sub in s
str_contains(s, sub) == \E i \in 1..(Len(s) + 1) : OccursAt(s, sub, i)

\* s.split(sep, 1): cut at the first occurrence of sep, once.
str_split_once(s, sep) ==
    IF ~str_contains(s, sep)
    THEN <<s>>
    ELSE LET i == SetMin({k \in 1..(Len(s) + 1) : OccursAt(s, sep, k)})
         IN  <<SubSeq(s, 1, i - 1), SubSeq(s, i + Len(sep), Len(s))>>

(***************************************************************************)
(* The regular expressions of the program.  A pattern is a sequence of     *)
(* atoms: "\\s*" (any run of whitespace), "$" (the end of the string, or   *)
(* the place before a final newline) or one literal character, compared    *)
(* without case as under re.IGNORECASE.                                    *)
(***************************************************************************)
AtEnd(s, i) == i = Len(s) + 1 \/ (i = Len(s) /\ s[i] = "\n")

RECURSIVE re_match_at(_, _, _, _)
\* Atoms p.. of pat match s from position i on.
re_match_at(pat, p, s, i) ==
    IF p > Len(pat) THEN TRUE
    ELSE IF pat[p] = "\\s*"
         THEN \E j \in i..(Len(s) + 1) :
                 /\ \A k \in i..(j - 1) : s[k] \in Whitespace
                 /\ re_match_at(pat, p + 1, s, j)
    ELSE IF pat[p] = "$"
         THEN AtEnd(s, i) /\ re_match_at(pat, p + 1, s, i)
    ELSE /\ i <= Len(s)
         /\ lower_char(s[i]) = lower_char(pat[p])
         /\ re_match_at(pat, p + 1, s, i + 1)

\* re.sub(pattern, '', s, flags=re.IGNORECASE) for a pattern that ends in \s*$:
\* the leftmost match runs to the end of s (the greedy \s* takes a final
\* newline too), and nothing is left to match after it.
re_sub_empty(pat, s) ==
    LET starts == {i \in 1..(Len(s) + 1) : re_match_at(pat, 1, s, i)}
    IN  IF starts = {} THEN s ELSE SubSeq(s, 1, SetMin(starts) - 1)

\* AlbumFetcher.REMOVE_PATTERNS
AlbumFetcher_REMOVE_PATTERNS ==
    << <<"\\s*", "a", "l", "b", "u", "m", " ", "r", "e", "v", "i", "e", "w", "\\s*", "$">>,
       <<"\\s*", "c", "o", "n", "c", "e", "r", "t", " ", "r", "e", "v", "i", "e", "w", "\\s*", "$">>,
       <<"\\s*", "p", "r", "e", "m", "i", "e", "r", "e", "\\s*", "$">>,
       <<"\\s*", "r", "e", "v", "i", "e", "w", "\\s*", "$">> >>

\* JazzProfilesFetcher.REMOVE_PATTERNS
JazzProfilesFetcher_REMOVE_PATTERNS ==
    << <<"\\s*", "a", "l", "b", "u", "m", " ", "r", "e", "v", "i", "e", "w", "\\s*", "$">>,
       <<"\\s*", "r", "e", "v", "i", "e", "w", "\\s*", "$">>,
       <<"\\s*", "-", "\\s*", "a", "l", "b", "u", "m", "\\s*", "$">>,
       <<"\\s*", "[", "a", "l", "b", "u", "m", "]", "\\s*", "$">> >>

RECURSIVE remove_patterns(_, _, _)
\* for pattern in self.REMOVE_PATTERNS: cleaned = re.sub(pattern, '', cleaned)
remove_patterns(patterns, k, cleaned) ==
    IF k > Len(patterns) THEN cleaned
    ELSE remove_patterns(patterns, k + 1, re_sub_empty(patterns[k], cleaned))

\* Optional[Tuple[str, str]]: None is the empty tuple, a pair is <<artist, album>>.
None == <<>>

\* parts = cleaned.split(sep, 1); both halves stripped; the pair, or None when
\* there are not two parts or a half is empty.
split_pair(cleaned, sep) ==
    LET parts == str_split_once(cleaned, sep)
    IN  IF Len(parts) # 2 THEN None
        ELSE LET artist == str_strip(parts[1])
                 album  == str_strip(parts[2])
             IN  IF artist = <<>> \/ album = <<>> THEN None ELSE <<artist, album>>

\* AlbumFetcher.clean_title with the title cut at its last colon.
AlbumFetcher_clean_title_last_colon(title) ==
    LET cleaned == str_strip(remove_patterns(AlbumFetcher_REMOVE_PATTERNS, 1, title))
        colons  == {i \in 1..Len(cleaned) : cleaned[i] = ":"}
    IN  IF colons = {} THEN None
        ELSE LET i == SetMax(colons)
                 artist == str_strip(SubSeq(cleaned, 1, i - 1))
                 album  == str_strip(SubSeq(cleaned, i + 1, Len(cleaned)))
             IN  IF artist = <<>> \/ album = <<>> THEN None ELSE <<artist, album>>

\* AlbumFetcher.clean_title
AlbumFetcher_clean_title(title) ==
    LET cleaned == str_strip(remove_patterns(AlbumFetcher_REMOVE_PATTERNS, 1, title))
    IN  IF ~str_contains(cleaned, <<":">>) THEN None
        ELSE split_pair(cleaned, <<":">>)

\* re.search(r'^(.+?)\s+by\s+(.+?)$', cleaned, re.IGNORECASE): <<group 1, group 2>>,
\* or None when there is no match.  Group 1 is lazy, so it ends at the first
\* place k where the rest of the pattern matches; each \s+ is greedy but leaves
\* the last group a character; "." matches no newline.
re_search_by(cleaned) ==
    LET n == Len(cleaned)
        NoNewline(a, b) == \A j \in a..b : cleaned[j] # "\n"
        \* group 2 = g..e, with $ at e + 1
        Ends(g) == {e \in g..n : NoNewline(g, e) /\ AtEnd(cleaned, e + 1)}
        \* "by" at b, b + 1, whitespace b + 2..g - 1, group 2 from g
        Groups(b) == {g \in (b + 3)..n :
                         /\ \A j \in (b + 2)..(g - 1) : cleaned[j] \in Whitespace
                         /\ Ends(g) # {}}
        \* group 1 = 1..k, whitespace k + 1..b - 1, "by" at b
        Bys(k) == {b \in (k + 2)..(n - 1) :
                      /\ \A j \in (k + 1)..(b - 1) : cleaned[j] \in Whitespace
                      /\ lower_char(cleaned[b]) = "b"
                      /\ lower_char(cleaned[b + 1]) = "y"
                      /\ Groups(b) # {}}
        Ks == {k \in 1..n : NoNewline(1, k) /\ Bys(k) # {}}
    IN  IF Ks = {} THEN None
        ELSE LET k == SetMin(Ks)
                 b == SetMax(Bys(k))
                 g == SetMax(Groups(b))
                 e == SetMin(Ends(g))
             IN  <<SubSeq(cleaned, 1, k), SubSeq(cleaned, g, e)>>

\* JazzProfilesFetcher.clean_title with the hyphen tried before the colon.
JazzProfilesFetcher_clean_title_hyphen_first(title) ==
    LET cleaned == str_strip(remove_patterns(JazzProfilesFetcher_REMOVE_PATTERNS, 1, title))
        byHyphen == IF str_contains(cleaned, <<" ", "-", " ">>)
                    THEN split_pair(cleaned, <<" ", "-", " ">>) ELSE None
        byColon  == IF str_contains(cleaned, <<":">>)
                    THEN split_pair(cleaned, <<":">>) ELSE None
        byBy     == IF str_contains(str_lower(cleaned), <<" ", "b", "y", " ">>)
                    THEN LET match == re_search_by(cleaned)
                         IN  IF match = None THEN None
                             ELSE LET album  == str_strip(match[1])
                                      artist == str_strip(match[2])
                                  IN  IF artist = <<>> \/ album = <<>> THEN None
                                      ELSE <<artist, album>>
                    ELSE None
    IN  IF byHyphen # None THEN byHyphen
        ELSE IF byColon # None THEN byColon
        ELSE byBy

\* JazzProfilesFetcher.clean_title
JazzProfilesFetcher_clean_title(title) ==
    LET cleaned == str_strip(remove_patterns(JazzProfilesFetcher_REMOVE_PATTERNS, 1, title))
        byColon  == IF str_contains(cleaned, <<":">>)
                    THEN split_pair(cleaned, <<":">>) ELSE None
        byHyphen == IF str_contains(cleaned, <<" ", "-", " ">>)
                    THEN split_pair(cleaned, <<" ", "-", " ">>) ELSE None
        byBy     == IF str_contains(str_lower(cleaned), <<" ", "b", "y", " ">>)
                    THEN LET match == re_search_by(cleaned)
                         IN  IF match = None THEN None
                             ELSE LET album  == str_strip(match[1])
                                      artist == str_strip(match[2])
                                  IN  IF artist = <<>> \/ album = <<>> THEN None
                                      ELSE <<artist, album>>
                    ELSE None
    IN  IF byColon # None THEN byColon
        ELSE IF byHyphen # None THEN byHyphen
        ELSE byBy

(***************************************************************************)
(* Python values that cross the network boundary: a decoded JSON value, or *)
(* what the resolver returns.  t is the Python type and v the content (the *)
(* characters of a str, the items of a list, the keys and values of a      *)
(* dict, the digits of an int).                                            *)
(***************************************************************************)
PyNone == [t |-> "None", v |-> <<>>]
PyStr(chars) == [t |-> "str", v |-> chars]
PyInt(digits) == [t |-> "int", v |-> digits]
PyList(items) == [t |-> "list", v |-> items]
PyDict(fields) == [t |-> "dict", v |-> fields]

\* bool(x)
Truthy(x) ==
    CASE x.t = "None" -> FALSE
      [] x.t = "str"  -> x.v # <<>>
      [] x.t = "list" -> x.v # <<>>
      [] x.t = "dict" -> DOMAIN x.v # {}
      [] x.t = "int"  -> x.v # <<"0">>

\* d.get(key, default) of a dict
dict_get(d, key, default) == IF key \in DOMAIN d.v THEN d.v[key] ELSE default

\* x or ''
or_empty(x) == IF Truthy(x) THEN x ELSE PyStr(<<>>)

\* What a call does: it returns ret, or raises exc (exc = "none": it returned).
Return(value) == [exc |-> "none", ret |-> value]
Raise(name) == [exc |-> name, ret |-> PyNone]

\* The instances of requests.RequestException and of ValueError among the
\* exceptions of the model.
RequestExceptions == {"ConnectionError", "HTTPError", "JSONDecodeError"}
ValueErrors == {"JSONDecodeError"}

\* try: body  except requests.RequestException: return None
\*            except ValueError: return None
except_request_or_value(outcome) ==
    IF outcome.exc \in RequestExceptions \cup ValueErrors THEN Return(PyNone) ELSE outcome

RECURSIVE str_replace(_, _, _)
\* s.replace(old, new): every occurrence, left to right, without overlap.
str_replace(s, old, new) ==
    IF ~str_contains(s, old) THEN s
    ELSE LET i == SetMin({k \in 1..(Len(s) + 1) : OccursAt(s, old, k)})
         IN  SubSeq(s, 1, i - 1) \o new
                \o str_replace(SubSeq(s, i + Len(old), Len(s)), old, new)

(***************************************************************************)
(* What the two external services may answer.  A response is the exception *)
(* the request raises (session.get, raise_for_status or response.json), or *)
(* the decoded JSON body.                                                  *)
(***************************************************************************)
Failed(name) == [error |-> name, json |-> PyNone]
Body(value) == [error |-> "none", json |-> value]

AppleUrl == <<"a", "/", "1">>

SearchResponses ==
    << Failed("ConnectionError"),
       Failed("HTTPError"),
       Failed("JSONDecodeError"),
       Body(PyDict([results |-> PyList(<<PyDict([collectionViewUrl |-> PyStr(AppleUrl)])>>)])),
       Body(PyDict([results |-> PyList(<<>>)])),
       Body(PyDict(<<>>)),
       Body(PyDict([results |-> PyList(<<PyDict(<<>>)>>)])),
       Body(PyList(<<>>)),
       Body(PyDict([results |-> PyDict([a |-> PyNone])])),
       Body(PyDict([results |-> PyList(<<PyDict([collectionViewUrl |-> PyInt(<<"5">>)])>>)])) >>

ConvertResponses ==
    << Failed("ConnectionError"),
       Failed("HTTPError"),
       Failed("JSONDecodeError"),
       Body(PyDict([pageUrl |-> PyStr(<<"l", "/", "u", "s", "/", "i", "/", "1">>)])),
       Body(PyDict([pageUrl |-> PyStr(<<"l", "/", "d", "e", "/", "i", "/", "1">>)])),
       Body(PyDict(<<>>)),
       Body(PyList(<<>>)),
       Body(PyDict([pageUrl |-> PyInt(<<"5">>)])) >>

\* The try block of search_apple_music on a response.
search_apple_music_try(resp) ==
    IF resp.error # "none" THEN Raise(resp.error)
    ELSE LET data == resp.json
         IN  IF data.t # "dict" THEN Raise("AttributeError")
             ELSE LET results == dict_get(data, "results", PyList(<<>>))
                  IN  IF ~Truthy(results) THEN Return(PyNone)
                      ELSE IF results.t = "dict" THEN Raise("KeyError")
                      ELSE IF results.t = "int" THEN Raise("TypeError")
                      ELSE LET first_result ==
                                  IF results.t = "list" THEN results.v[1]
                                  ELSE PyStr(<<results.v[1]>>)
                           IN  IF first_result.t # "dict" THEN Raise("AttributeError")
                               ELSE LET apple_url_found ==
                                           dict_get(first_result, "collectionViewUrl", PyNone)
                                    IN  IF Truthy(apple_url_found)
                                        THEN Return(apple_url_found)
                                        ELSE Return(PyNone)

\* AlbumFetcher.search_apple_music, given what the search service answers.
search_apple_music(resp) == except_request_or_value(search_apple_music_try(resp))

\* The country code removed for /us/i/ alone.
strip_region_us_only(page_url) ==
    str_replace(page_url, <<"/", "u", "s", "/", "i", "/">>, <<"/", "i", "/">>)

\* The three region prefixes convert_url_to_album_link removes.
strip_region(page_url) ==
    LET i  == <<"/", "i", "/">>
        r1 == str_replace(page_url, <<"/", "u", "s", "/", "i", "/">>, i)
        r2 == str_replace(r1, <<"/", "u", "k", "/", "i", "/">>, i)
    IN  str_replace(r2, <<"/", "c", "a", "/", "i", "/">>, i)

\* The try block of convert_url_to_album_link on a response.
convert_url_try(resp) ==
    IF resp.error # "none" THEN Raise(resp.error)
    ELSE LET data == resp.json
         IN  IF data.t # "dict" THEN Raise("AttributeError")
             ELSE LET page_url == dict_get(data, "pageUrl", PyNone)
                  IN  IF ~Truthy(page_url) THEN Return(PyNone)
                      ELSE IF page_url.t # "str" THEN Raise("AttributeError")
                      ELSE Return(PyStr(strip_region(page_url.v)))

\* AlbumFetcher.convert_url_to_album_link after the pause, given what the
\* link service answers.
convert_url_to_album_link(resp) == except_request_or_value(convert_url_try(resp))

\* quote(music_url) accepts a str and raises TypeError for anything else.
quote_raises(music_url) == music_url.t # "str"

\* time.sleep(6)
SleepSeconds == 6

(***************************************************************************)
(* The published date.  A date string is a sequence of lexemes: a comma, a *)
(* whitespace character, or a longest run of other characters ("02",       *)
(* "Nov", "10:00:00"), which is all that strptime, split(','), strip() and *)
(* split() of process_feed tell apart.                                     *)
(***************************************************************************)
WeekdayNames == {"Mon", "Tue", "Wed", "Thu", "Fri", "Sat", "Sun"}
MonthNames == <<"Jan", "Feb", "Mar", "Apr", "May", "Jun",
                "Jul", "Aug", "Sep", "Oct", "Nov", "Dec">>
TwoDigits == <<"01", "02", "03", "04", "05", "06", "07", "08", "09", "10",
               "11", "12", "13", "14", "15", "16", "17", "18", "19", "20",
               "21", "22", "23", "24", "25", "26", "27", "28", "29", "30", "31">>
OneDigit == <<"1", "2", "3", "4", "5", "6", "7", "8", "9">>
YearLexemes == {"2024", "2025", "2026"}
TimeLexemes == {"00:00:00", "10:00:00", "23:59:59"}
\* %z takes a numeric offset or Z, not a zone name such as GMT.
OffsetLexemes == {"+0000", "-0800", "Z"}

\* One directive of the format against one lexeme.
directive_matches(directive, lexeme) ==
    CASE directive = "%a" -> lexeme \in WeekdayNames
      [] directive = "%d" -> (\E k \in 1..31 : TwoDigits[k] = lexeme)
                             \/ (\E k \in 1..9 : OneDigit[k] = lexeme)
      [] directive = "%b" -> \E k \in 1..12 : MonthNames[k] = lexeme
      [] directive = "%Y" -> lexeme \in YearLexemes
      [] directive = "%H:%M:%S" -> lexeme \in TimeLexemes
      [] directive = "%z" -> lexeme \in OffsetLexemes
      [] OTHER -> FALSE

\* '%a, %d %b %Y %H:%M:%S %z'
DateFormat == <<"%a", ",", " ", "%d", " ", "%b", " ", "%Y", " ", "%H:%M:%S", " ", "%z">>

RECURSIVE strptime_matches(_, _, _, _)
\* Items f.. of the format match all of the lexemes i.. of s; a blank of the
\* format matches one or more whitespace lexemes.
strptime_matches(fmt, f, s, i) ==
    IF f > Len(fmt) THEN i = Len(s) + 1
    ELSE IF fmt[f] = " "
         THEN \E j \in (i + 1)..(Len(s) + 1) :
                 /\ \A k \in i..(j - 1) : s[k] \in Whitespace
                 /\ strptime_matches(fmt, f + 1, s, j)
    ELSE IF fmt[f] = ","
         THEN i <= Len(s) /\ s[i] = "," /\ strptime_matches(fmt, f + 1, s, i + 1)
    ELSE /\ i <= Len(s)
         /\ directive_matches(fmt[f], s[i])
         /\ strptime_matches(fmt, f + 1, s, i + 1)

\* The lexemes of s that are not whitespace, in order.
words(s) == SelectSeq(s, LAMBDA x : x \notin Whitespace)

\* datetime.strptime(pub_date, DateFormat).strftime('%Y-%m-%d'), for a pub_date
\* the format matches: its words are weekday, comma, day, month, year, time, zone.
strftime_ymd(pub_date) ==
    LET w == words(pub_date)
        day == IF \E k \in 1..9 : OneDigit[k] = w[3]
               THEN TwoDigits[CHOOSE k \in 1..9 : OneDigit[k] = w[3]]
               ELSE w[3]
        month == TwoDigits[CHOOSE k \in 1..12 : MonthNames[k] = w[4]]
    IN  <<w[5] \o "-" \o month \o "-" \o day>>

RECURSIVE split_comma(_)
\* s.split(',')
split_comma(s) ==
    IF \A k \in 1..Len(s) : s[k] # "," THEN <<s>>
    ELSE LET i == SetMin({k \in 1..Len(s) : s[k] = ","})
         IN  <<SubSeq(s, 1, i - 1)>> \o split_comma(SubSeq(s, i + 1, Len(s)))

RECURSIVE join_blank(_)
\* ' '.join(parts)
join_blank(parts) ==
    IF parts = <<>> THEN <<>>
    ELSE IF Len(parts) = 1 THEN <<parts[1]>>
    ELSE <<parts[1], " ">> \o join_blank(Tail(parts))

\* The except branch: pub_date.split(',')[1].strip().split()[0:3], joined by
\* blanks (the slice is always a list).  [1] raises IndexError without a comma.
date_fallback(pub_date) ==
    LET pieces == split_comma(pub_date)
    IN  IF Len(pieces) < 2 THEN Raise("IndexError")
        ELSE LET w == words(str_strip(pieces[2]))
                 first3 == SubSeq(w, 1, IF Len(w) < 3 THEN Len(w) ELSE 3)
             IN  Return(join_blank(first3))

\* The "Parse date" block of process_feed: date_str, or the exception raised.
parse_date(pub_date) ==
    IF pub_date = <<>> THEN Return(<<>>)
    ELSE IF strptime_matches(DateFormat, 1, pub_date, 1) THEN Return(strftime_ymd(pub_date))
    ELSE date_fallback(pub_date)

(***************************************************************************)
(* The feeds.  An entry is a dict with a title and a published date, or    *)
(* without one or both.                                                    *)
(***************************************************************************)
Rfc822Date == <<"Sun", ",", " ", "02", " ", "Nov", " ", "2025", " ", "10:00:00", " ", "+0000">>
GmtDate == <<"Sun", ",", " ", "2", " ", "Nov", " ", "2025", " ", "10:00:00", " ", "GMT">>
IsoDate == <<"2025-11-02T10:00:00.000-08:00">>

FeedEntries ==
    << [title |-> <<"A", ":", "b", " ", "R", "e", "v", "i", "e", "w">>, published |-> Rfc822Date],
       [title |-> <<"A", " ", "-", " ", "b">>, published |-> GmtDate],
       <<>>,
       [title |-> <<"A", ":", "b">>, published |-> IsoDate],
       [title |-> <<"b", ":", "A", ":", "b">>] >>

\* entry.get(key, '')
entry_get(entry, key) == IF key \in DOMAIN entry THEN entry[key] ELSE <<>>

\* The sequences over 1..n of length at most len.
RECURSIVE SeqsUpTo(_, _)
SeqsUpTo(n, len) ==
    IF len = 0 THEN {<<>>}
    ELSE LET shorter == SeqsUpTo(n, len - 1)
         IN  shorter \cup {Append(q, k) : q \in shorter, k \in 1..n}

\* The feeds a source may deliver: at most n entries of FeedEntries, named by
\* their places in FeedEntries.
FeedChoices(n) == SeqsUpTo(Len(FeedEntries), n)
feed_entries(choice) == [k \in 1..Len(choice) |-> FeedEntries[choice[k]]]

\* test_sample.py: sample_titles
sample_titles ==
    << <<"M", "a", "r", "t", "i", "n", " ", "N", "o", "d", "e", "l", "a", "n", "d", ":", " ", "T", "r", "i", "b", "u", "t", "a", "r", "i", "e", "s", " ", "a", "l", "b", "u", "m", " ", "r", "e", "v", "i", "e", "w">>,
       <<"J", "a", "n", "e", " ", "M", "o", "n", "h", "e", "i", "t", ":", " ", "C", "o", "m", "e", " ", "W", "h", "a", "t", " ", "M", "a", "y">>,
       <<"B", "r", "a", "d", " ", "M", "e", "h", "l", "d", "a", "u", ":", " ", "Y", "o", "u", "r", " ", "M", "o", "t", "h", "e", "r", " ", "S", "h", "o", "u", "l", "d", " ", "K", "n", "o", "w", ":", " ", "B", "r", "a", "d", " ", "M", "e", "h", "l", "d", "a", "u", " ", "P", "l", "a", "y", "s", " ", "T", "h", "e", " ", "B", "e", "a", "t", "l", "e", "s">>,
       <<"C", "é", "c", "i", "l", "e", " ", "M", "c", "L", "o", "r", "i", "n", " ", "S", "a", "l", "v", "a", "n", "t", ":", " ", "M", "é", "l", "u", "s", "i", "n", "e">> >>

\* The host of a pageUrl, and the pieces its path is made of: a country
\* code the program knows (us, uk, ca) or not (de), the service type of the
\* catalog (i) or another (s), an id.
PageHost == <<"l">>
PathSegments ==
    << <<"/", "u", "s">>, <<"/", "u", "k">>, <<"/", "c", "a">>, <<"/", "d", "e">>,
       <<"/", "i">>, <<"/", "s">>, <<"/", "1">> >>

\* The pieces the titles given to the parsers are made of.
TitleSegments ==
    << <<"A">>, <<":">>, <<" ", "-", " ">>, <<" ", "B", "y", " ">>,
       <<" ", "R", "e", "v", "i", "e", "w">>, <<"a", "l", "b", "u", "m">>,
       <<"[", "a", "l", "b", "u", "m", "]">> >>

(***************************************************************************)
(* The state: the two programs (getmusic.py's main and test_sample.py),    *)
(* the locals of process_feed and of the test's loop, the clock, and the   *)
(* log of the requests made, which is what a test double would record.     *)
(***************************************************************************)
VARIABLES
    program,      \* "getmusic", "test_sample", "parse" (a parser on its own)
                  \* or "convert" (convert_url_to_album_link on its own)
    pc,           \* where the program is
    args,         \* main: the parsed command line
    fetcher,      \* the class of self
    entries,      \* process_feed: entries
    idx,          \* the loop: how many entries (titles) the loop has taken
    title, pub_date, date_str, parsed, apple_url, album_link,
    results,      \* process_feed / test: results
    aaj_results, jp_results,   \* main
    now,          \* seconds since the start of the run
    callLog,      \* the requests made, in order
    raised,       \* the exception propagating, "none" when there is none
    exit_code,    \* the exit status, -1 while running
    output,       \* what was written to the output file
    caught,       \* the exception (e) a resolver method caught for the entry
                  \* the loop is at, "none" when it caught none
    nsegs,        \* "parse", "convert": how many segments the input is made of
    page_url      \* "convert": the pageUrl the link service answers with

vars == <<program, pc, args, fetcher, entries, idx, title, pub_date, date_str,
          parsed, apple_url, album_link, results, aaj_results, jp_results,
          now, callLog, raised, exit_code, output, caught, nsegs, page_url>>

loop_locals == <<title, pub_date, date_str, parsed, apple_url, album_link>>

NoArgs == [format |-> "none", skip_jazz_profiles |-> FALSE]
NoOutput == [format |-> "none", results |-> <<>>, jazz_profiles_results |-> PyNone,
             markdown |-> <<>>]

Formats == {"markdown", "csv", "html"}

InitCommon ==
    /\ args = NoArgs
    /\ fetcher = "AlbumFetcher"
    /\ entries = <<>>
    /\ idx = 0
    /\ title = <<>> /\ pub_date = <<>> /\ date_str = <<>>
    /\ parsed = None /\ apple_url = PyNone /\ album_link = PyNone
    /\ results = <<>>
    /\ aaj_results = PyNone /\ jp_results = PyNone
    /\ now = 0
    /\ callLog = <<>>
    /\ raised = "none"
    /\ exit_code = -1
    /\ output = NoOutput
    /\ caught = "none"
    /\ nsegs = 0
    /\ page_url = <<>>

Init ==
    /\ program \in {"getmusic", "test_sample"}
    /\ pc = IF program = "getmusic" THEN "main" ELSE "sample_for"
    /\ InitCommon

\* The locals of one loop iteration are assigned again before they are read.
ResetLocals ==
    /\ title' = <<>> /\ pub_date' = <<>> /\ date_str' = <<>>
    /\ parsed' = None /\ apple_url' = PyNone /\ album_link' = PyNone
    /\ caught' = "none"

\* An exception leaves the function that raised it.
Propagate(name) ==
    /\ raised' = name
    /\ pc' = "except"

\* One more call in the log.  entry is the entry (title) the loop is at and,
\* for a fetch, the number of entries the feed delivered.
LogCall(op, entry, outcome) ==
    callLog' = Append(callLog, [op |-> op, fetcher |-> fetcher, entry |-> entry,
                                at |-> now, outcome |-> outcome])

\* The exception a resolver method caught on its way to out: the one its try
\* block raised when the method returned all the same, "none" otherwise.
caught_in(attempt, out) == IF out.exc = "none" THEN attempt.exc ELSE "none"

RECURSIVE Delivered(_)
\* The entries the feeds fetched so far delivered.
Delivered(log) ==
    IF log = <<>> THEN 0
    ELSE (IF Head(log).op = "fetch" THEN Head(log).entry ELSE 0) + Delivered(Tail(log))

\* clean_title of the class of self
clean_title(cls, t) ==
    IF cls = "JazzProfilesFetcher"
    THEN JazzProfilesFetcher_clean_title(t)
    ELSE AlbumFetcher_clean_title(t)

(***************************************************************************)
(* main                                                                    *)
(***************************************************************************)
\* main: parser.parse_args(), then the first fetcher.
ParseArgs ==
    /\ program = "getmusic" /\ pc = "main"
    /\ \E f \in Formats, skip \in BOOLEAN :
          args' = [format |-> f, skip_jazz_profiles |-> skip]
    /\ fetcher' = "AlbumFetcher"
    /\ pc' = "process_feed"
    /\ UNCHANGED <<caught, page_url, program, entries, idx, loop_locals, results, aaj_results,
                   jp_results, now, callLog, raised, exit_code, output, nsegs>>

\* fetch_rss without its except clause.
fetch_rss_uncaught(outcome) == outcome

\* fetch_rss: feed.entries, or [] when feedparser.parse raises (except Exception).
fetch_rss(outcome) == IF outcome.exc # "none" THEN Return(<<>>) ELSE outcome

\* process_feed: entries = self.fetch_rss(); results = []
FetchRss ==
    /\ pc = "process_feed"
    /\ \E outcome \in {[exc |-> "URLError", ret |-> <<>>]}
                         \cup {Return(c) : c \in FeedChoices(MaxEntries - Delivered(callLog))} :
          LET out == fetch_rss(outcome)
          IN  IF out.exc # "none"
              THEN /\ Propagate(out.exc)
                   /\ LogCall("fetch", 0, "error")
                   /\ UNCHANGED <<entries, results, idx>>
              ELSE /\ entries' = feed_entries(out.ret)
                   /\ results' = <<>>
                   /\ idx' = 0
                   /\ pc' = "for_entry"
                   /\ LogCall("fetch", Len(entries'),
                              IF outcome.exc # "none" THEN "error" ELSE "ok")
                   /\ UNCHANGED raised
    /\ UNCHANGED <<caught, page_url, program, args, fetcher, loop_locals, aaj_results, jp_results,
                   now, exit_code, output, nsegs>>

\* for entry in entries: title = entry.get('title', ''); pub_date = ...
NextEntry ==
    /\ pc = "for_entry"
    /\ IF idx < Len(entries)
       THEN /\ idx' = idx + 1
            /\ title' = entry_get(entries[idx + 1], "title")
            /\ pub_date' = entry_get(entries[idx + 1], "published")
            /\ pc' = "parse_date"
            /\ UNCHANGED <<date_str, parsed, apple_url, album_link>>
       ELSE /\ pc' = "return_results"
            /\ UNCHANGED <<idx, loop_locals>>
    /\ UNCHANGED <<caught, page_url, program, args, fetcher, entries, results, aaj_results,
                   jp_results, now, callLog, raised, exit_code, output, nsegs>>

\* The "Parse date" block.
ParseDate ==
    /\ pc = "parse_date"
    /\ LET out == parse_date(pub_date)
       IN  IF out.exc # "none"
           THEN Propagate(out.exc) /\ UNCHANGED date_str
           ELSE date_str' = out.ret /\ pc' = "clean_title" /\ UNCHANGED raised
    /\ UNCHANGED <<caught, page_url, program, args, fetcher, entries, idx, title, pub_date, parsed,
                   apple_url, album_link, results, aaj_results, jp_results,
                   now, callLog, exit_code, output, nsegs>>

\* parsed = self.clean_title(title); if not parsed: continue
CleanTitle ==
    /\ pc = "clean_title"
    /\ parsed' = clean_title(fetcher, title)
    /\ pc' = IF parsed' = None THEN "for_entry" ELSE "search"
    /\ UNCHANGED <<caught, page_url, program, args, fetcher, entries, idx, title, pub_date, date_str,
                   apple_url, album_link, results, aaj_results, jp_results,
                   now, callLog, raised, exit_code, output, nsegs>>

\* Where the caller of the resolver goes on once the links are settled:
\* process_feed appends the record, the test looks at what search_album_link
\* returned.
AfterResolve == IF program = "getmusic" THEN "append" ELSE "sample_found"

\* The conversion entered whatever the search returned.
after_search_always_converts(url) == "convert"

\* The search made again when it returned nothing.
after_search_retries(url) == IF Truthy(url) THEN "convert" ELSE "search"

\* if apple_url: convert it, else go on without
after_search(url) == IF Truthy(url) THEN "convert" ELSE AfterResolve

\* apple_url = self.search_apple_music(artist, album); album_link = None
SearchAppleMusic ==
    /\ pc = "search"
    /\ \E n \in 1..Len(SearchResponses) :
          LET out == search_apple_music(SearchResponses[n])
          IN  IF out.exc # "none"
              THEN /\ Propagate(out.exc)
                   /\ LogCall("search", idx, "error")
                   /\ UNCHANGED <<apple_url, album_link, caught>>
              ELSE /\ apple_url' = out.ret
                   /\ album_link' = PyNone
                   /\ caught' = caught_in(search_apple_music_try(SearchResponses[n]), out)
                   /\ pc' = after_search(out.ret)
                   /\ LogCall("search", idx, IF Truthy(out.ret) THEN "ok" ELSE "none")
                   /\ UNCHANGED raised
    /\ UNCHANGED <<page_url, program, args, fetcher, entries, idx, title, pub_date,
                   date_str, parsed, results, aaj_results, jp_results, now,
                   exit_code, output, nsegs>>

\* The pause left out before the first request of a run.
after_sleep_not_first(t) == IF t = 0 THEN t ELSE t + SleepSeconds

\* The clock after time.sleep(6).
after_sleep(t) == t + SleepSeconds

\* convert_url_to_album_link, up to the request: quote the link, then pause.
ConvertPause ==
    /\ pc = "convert"
    /\ IF quote_raises(apple_url)
       THEN Propagate("TypeError") /\ UNCHANGED now
       ELSE now' = after_sleep(now) /\ pc' = "convert_request" /\ UNCHANGED raised
    /\ UNCHANGED <<caught, page_url, program, args, fetcher, entries, idx, loop_locals, results,
                   aaj_results, jp_results, callLog, exit_code, output, nsegs>>

\* What the caller keeps of convert_url_to_album_link's result: process_feed the
\* result itself, search_album_link the link if there is one, else None.
kept_link(link) ==
    IF program = "getmusic" THEN link
    ELSE IF Truthy(link) THEN link ELSE PyNone

\* convert_url_to_album_link, the request and what follows it.
ConvertRequest ==
    /\ pc = "convert_request"
    /\ \E n \in 1..Len(ConvertResponses) :
          LET out == convert_url_to_album_link(ConvertResponses[n])
          IN  IF out.exc # "none"
              THEN /\ Propagate(out.exc)
                   /\ LogCall("convert", idx, "error")
                   /\ UNCHANGED <<album_link, caught>>
              ELSE /\ album_link' = kept_link(out.ret)
                   /\ caught' = caught_in(convert_url_try(ConvertResponses[n]), out)
                   /\ pc' = AfterResolve
                   /\ LogCall("convert", idx, IF Truthy(out.ret) THEN "ok" ELSE "none")
                   /\ UNCHANGED raised
    /\ UNCHANGED <<page_url, program, args, fetcher, entries, idx, title, pub_date,
                   date_str, parsed, apple_url, results, aaj_results, jp_results,
                   now, exit_code, output, nsegs>>

\* The record with the catalog link kept only beside a universal link.
result_record_links_together(p, link, url, date) ==
    <<p[1], p[2], or_empty(link), IF Truthy(link) THEN or_empty(url) ELSE PyStr(<<>>), date>>

\* The record with the two links as the resolver returned them.
result_record_links_as_returned(p, link, url, date) == <<p[1], p[2], link, url, date>>

\* (artist, album, album_link or '', apple_url or '', date_str)
result_record(p, link, url, date) == <<p[1], p[2], or_empty(link), or_empty(url), date>>

\* The record appended only when a universal link was found.
append_result_if_found(rs, p, link, url, date) ==
    IF Truthy(link)
    THEN Append(rs, <<p[1], p[2], or_empty(link), or_empty(url), date>>)
    ELSE rs

\* The record put in front of the results.
append_result_in_front(rs, p, link, url, date) ==
    <<(<<p[1], p[2], or_empty(link), or_empty(url), date>>)>> \o rs

\* results.append(record)
append_result(rs, p, link, url, date) == Append(rs, result_record(p, link, url, date))

\* process_feed: the record of the entry joins the results.
AppendResult ==
    /\ pc = "append"
    /\ results' = append_result(results, parsed, album_link, apple_url, date_str)
    /\ pc' = "for_entry"
    /\ ResetLocals
    /\ UNCHANGED <<page_url, program, args, fetcher, entries, idx, aaj_results, jp_results,
                   now, callLog, raised, exit_code, output, nsegs>>

\* process_feed returns; main keeps the results and goes on to the second
\* source, unless it is skipped, and then to the output.
ReturnResults ==
    /\ pc = "return_results"
    /\ IF fetcher = "AlbumFetcher"
       THEN /\ aaj_results' = PyList(results)
            /\ UNCHANGED jp_results
            /\ IF args.skip_jazz_profiles
               THEN pc' = "generate" /\ UNCHANGED fetcher
               ELSE pc' = "process_feed" /\ fetcher' = "JazzProfilesFetcher"
       ELSE /\ jp_results' = PyList(results)
            /\ pc' = "generate"
            /\ UNCHANGED <<aaj_results, fetcher>>
    /\ results' = <<>>
    /\ entries' = <<>>
    /\ idx' = 0
    /\ UNCHANGED <<caught, page_url, program, args, loop_locals, now, callLog, raised, exit_code,
                   output, nsegs>>

\* The characters U+1F3B6 and U+2014 of generate_markdown's text, each one piece.
MusicalNotes == "U+1F3B6"
EmDash == "U+2014"

\* f"[[{label}]({target})]"
link_label(label, target) == <<"[", "[">> \o label \o <<"]", "(">> \o target \o <<")", "]">>

\* The line generate_markdown writes for one record, without its "\n":
\* f"- **{artist} — {album}** [[All]({album_link})] [[Apple]({apple_link})]",
\* then f" _{date}_" if date.
markdown_line(record) ==
    LET artist == record[1]
        album == record[2]
        all_link == record[3]      \* album_link of the loop
        apple_link == record[4]
        date == record[5]
    IN  <<"-", " ", "*", "*">> \o artist \o <<" ", EmDash, " ">> \o album
           \o <<"*", "*", " ">> \o link_label(<<"A", "l", "l">>, all_link.v)
           \o <<" ">> \o link_label(<<"A", "p", "p", "l", "e">>, apple_link.v)
           \o (IF date # <<>> THEN <<" ", "_">> \o date \o <<"_">> ELSE <<>>)

\* The two head lines of the Markdown file, each followed by an empty line.
MarkdownHead ==
    << <<"## ", MusicalNotes, " New Jazz Albums">>, <<>>,
       <<"_Links: [All Platforms] | [Apple Music]_">>, <<>> >>

\* OutputGenerator.generate_markdown: the lines written to the file.
generate_markdown(rs) ==
    IF rs = <<>> THEN MarkdownHead \o << <<"No albums found.">> >>
    ELSE MarkdownHead \o [k \in 1..Len(rs) |-> markdown_line(rs[k])]

\* What main hands to the generator of the format: Markdown and CSV get the
\* first source's results only, HTML both.  Of the three files the lines of the
\* Markdown one are kept.
written(fmt, aaj, jp) ==
    [format |-> fmt, results |-> aaj.v,
     jazz_profiles_results |-> IF fmt = "html" THEN jp ELSE PyNone,
     markdown |-> IF fmt = "markdown" THEN generate_markdown(aaj.v) ELSE <<>>]

\* main: OutputGenerator.generate_<format>(...); return 0.  Opening or writing
\* the file may raise OSError.
GenerateOutput ==
    /\ program = "getmusic" /\ pc = "generate"
    /\ \/ /\ output' = written(args.format, aaj_results, jp_results)
          /\ exit_code' = 0
          /\ pc' = "exit"
          /\ UNCHANGED raised
       \/ /\ Propagate("OSError")
          /\ UNCHANGED <<output, exit_code>>
    /\ UNCHANGED <<caught, page_url, program, args, fetcher, entries, idx, loop_locals, results,
                   aaj_results, jp_results, now, callLog, nsegs>>

\* main: except Exception: ... return 1; in the test nothing catches, and the
\* interpreter exits with status 1.
ExitOnException ==
    /\ pc = "except"
    /\ exit_code' = 1
    /\ pc' = "exit"
    /\ UNCHANGED <<caught, page_url, program, args, fetcher, entries, idx, loop_locals, results,
                   aaj_results, jp_results, now, callLog, raised, output, nsegs>>

(***************************************************************************)
(* test_sample.py: test_with_sample_data                                   *)
(***************************************************************************)
\* for title in sample_titles: parsed = fetcher.clean_title(title); if not
\* parsed: continue; else album_link = fetcher.search_album_link(artist, album)
SampleNextTitle ==
    /\ program = "test_sample" /\ pc = "sample_for"
    /\ IF idx < Len(sample_titles)
       THEN /\ idx' = idx + 1
            /\ title' = sample_titles[idx + 1]
            /\ parsed' = clean_title(fetcher, title')
            /\ pc' = IF parsed' = None THEN "sample_for" ELSE "search"
            /\ UNCHANGED <<pub_date, date_str, apple_url, album_link>>
       ELSE /\ pc' = "sample_output"
            /\ UNCHANGED <<idx, loop_locals>>
    /\ UNCHANGED <<caught, page_url, program, args, fetcher, entries, results, aaj_results,
                   jp_results, now, callLog, raised, exit_code, output, nsegs>>

SampleDate == <<"2025-11-02">>

\* if album_link: results.append((artist, album, album_link, "2025-11-02"))
sample_collect(rs, p, link) ==
    IF Truthy(link) THEN Append(rs, <<p[1], p[2], link, SampleDate>>) ELSE rs

SampleCollect ==
    /\ program = "test_sample" /\ pc = "sample_found"
    /\ results' = sample_collect(results, parsed, album_link)
    /\ pc' = "sample_for"
    /\ ResetLocals
    /\ UNCHANGED <<page_url, program, args, fetcher, entries, idx, aaj_results, jp_results,
                   now, callLog, raised, exit_code, output, nsegs>>

\* generate_markdown unpacks five fields from every record:
\* for artist, album, album_link, apple_link, date in results
unpack_raises(rs) == \E k \in 1..Len(rs) : Len(rs[k]) # 5

\* if results: generate_markdown(results, ...); generate_csv(...)
\* else: print("No results to output.")
SampleOutput ==
    /\ program = "test_sample" /\ pc = "sample_output"
    /\ IF results # <<>> /\ unpack_raises(results)
       THEN Propagate("ValueError") /\ UNCHANGED <<output, exit_code>>
       ELSE /\ output' = IF results = <<>> THEN output
                         ELSE written("csv", PyList(results), PyNone)
            /\ exit_code' = 0
            /\ pc' = "exit"
            /\ UNCHANGED raised
    /\ UNCHANGED <<caught, page_url, program, args, fetcher, entries, idx, loop_locals, results,
                   aaj_results, jp_results, now, callLog, nsegs>>

Next ==
    \/ ParseArgs
    \/ FetchRss
    \/ NextEntry
    \/ ParseDate
    \/ CleanTitle
    \/ SearchAppleMusic
    \/ ConvertPause
    \/ ConvertRequest
    \/ AppendResult
    \/ ReturnResults
    \/ GenerateOutput
    \/ ExitOnException
    \/ SampleNextTitle
    \/ SampleCollect
    \/ SampleOutput

Spec == Init /\ [][Next]_vars

(***************************************************************************)
(* The two title parsers on their own: a title is put together from the    *)
(* segments of TitleSegments, and either parser is applied to it.          *)
(***************************************************************************)
InitParse ==
    /\ program = "parse"
    /\ pc = "title"
    /\ InitCommon

ExtendTitle ==
    /\ program = "parse" /\ pc = "title"
    /\ nsegs < MaxSegs
    /\ \E k \in 1..Len(TitleSegments) : title' = title \o TitleSegments[k]
    /\ nsegs' = nsegs + 1
    /\ UNCHANGED <<caught, page_url, program, pc, args, fetcher, entries, idx, pub_date, date_str,
                   parsed, apple_url, album_link, results, aaj_results,
                   jp_results, now, callLog, raised, exit_code, output>>

ApplyCleanTitle ==
    /\ program = "parse" /\ pc = "title"
    /\ \E cls \in {"AlbumFetcher", "JazzProfilesFetcher"} :
          /\ fetcher' = cls
          /\ parsed' = clean_title(cls, title)
    /\ pc' = "parsed"
    /\ UNCHANGED <<caught, page_url, program, args, entries, idx, title, pub_date, date_str,
                   apple_url, album_link, results, aaj_results, jp_results,
                   now, callLog, raised, exit_code, output, nsegs>>

NextParse == ExtendTitle \/ ApplyCleanTitle

SpecParse == InitParse /\ [][NextParse]_vars

(***************************************************************************)
(* convert_url_to_album_link on its own: the link service answers with a   *)
(* pageUrl put together from the host and the segments of PathSegments.    *)
(***************************************************************************)
InitConvert ==
    /\ program = "convert"
    /\ pc = "page_url"
    /\ InitCommon

ExtendPageUrl ==
    /\ program = "convert" /\ pc = "page_url"
    /\ nsegs < MaxPathSegs
    /\ \E k \in 1..Len(PathSegments) :
          page_url' = (IF page_url = <<>> THEN PageHost ELSE page_url) \o PathSegments[k]
    /\ nsegs' = nsegs + 1
    /\ UNCHANGED <<program, pc, args, fetcher, entries, idx, loop_locals, results,
                   aaj_results, jp_results, now, callLog, raised, exit_code, output,
                   caught>>

\* data = response.json(); page_url = data.get('pageUrl'); ...; return
ApplyConvert ==
    /\ program = "convert" /\ pc = "page_url"
    /\ album_link' = convert_url_to_album_link(Body(PyDict([pageUrl |-> PyStr(page_url)]))).ret
    /\ pc' = "converted"
    /\ UNCHANGED <<caught, page_url, program, args, fetcher, entries, idx, title, pub_date,
                   date_str, parsed, apple_url, results, aaj_results, jp_results,
                   now, callLog, raised, exit_code, output, nsegs>>

NextConvert == ExtendPageUrl \/ ApplyConvert

SpecConvert == InitConvert /\ [][NextConvert]_vars

(***************************************************************************)
(* Properties of process_feed, the resolver and main, under Spec.          *)
(***************************************************************************)
\* process_feed is in its loop.
InFeedLoop ==
    /\ program = "getmusic"
    /\ pc \in {"for_entry", "parse_date", "clean_title", "search", "convert",
               "convert_request", "append"}

\* process_feed is in its loop or at its return.
InProcessFeed == InFeedLoop \/ (program = "getmusic" /\ pc = "return_results")

\* How many entries the loop is through with.
EntriesDone == IF pc \in {"for_entry", "return_results"} THEN idx ELSE idx - 1

\* The active clean_title parses the title of entry k.
ParsesAt(k) == clean_title(fetcher, entry_get(entries[k], "title")) # None

LastCall == callLog[Len(callLog)]
LastResult == results[Len(results)]
EmptyStr == PyStr(<<>>)

\* C1: process_feed never drops an entry because its links were not found.  At
\* every point of the loop and at the return, the results hold exactly one
\* record for each entry done whose title parses (so only an entry whose title
\* does not parse is left out), and as many of them have an empty universal
\* link as there were entries done whose search or conversion found nothing.
C1_EveryParsedEntryHasARecord ==
    InProcessFeed =>
        /\ Len(results) = Cardinality({k \in 1..EntriesDone : ParsesAt(k)})
        /\ Cardinality({k \in 1..Len(results) : results[k][3] = EmptyStr})
             = Cardinality({j \in 1..Len(callLog) :
                              /\ callLog[j].fetcher = fetcher
                              /\ callLog[j].op \in {"search", "convert"}
                              /\ callLog[j].entry <= EntriesDone
                              /\ callLog[j].outcome = "none"})

\* C1 witness: a feed of two entries returns one record, with both links empty:
\* one entry did not parse, the other parsed and its search found nothing.
C1_Witness ==
    /\ program = "getmusic" /\ pc = "return_results"
    /\ Len(entries) = 2 /\ Len(results) = 1
    /\ results[1][3] = EmptyStr /\ results[1][4] = EmptyStr

\* C2: the conversion is entered only with a link the search returned; every
\* conversion request in the log comes right after a search of the same entry
\* that found a link; search_album_link returns a link exactly when the search
\* and the conversion both found one, and None otherwise; and a record made
\* after a search that found nothing has an empty universal link.
C2_ShortCircuit ==
    /\ pc \in {"convert", "convert_request"} => Truthy(apple_url)
    /\ \A j \in 1..Len(callLog) :
          callLog[j].op = "convert" =>
              /\ j > 1
              /\ callLog[j - 1].op = "search"
              /\ callLog[j - 1].outcome = "ok"
              /\ callLog[j - 1].fetcher = callLog[j].fetcher
              /\ callLog[j - 1].entry = callLog[j].entry
    /\ pc = "sample_found" =>
          /\ Truthy(album_link) <=> (LastCall.op = "convert" /\ LastCall.outcome = "ok")
          /\ ~Truthy(album_link) => album_link = PyNone
    /\ (program = "getmusic" /\ pc = "for_entry" /\ callLog # <<>>
        /\ LastCall.op = "search" /\ LastCall.outcome = "none") =>
          /\ results # <<>>
          /\ LastResult[3] = EmptyStr

\* C2 witness: search_album_link has returned None after a search that found
\* nothing, with no conversion request made.
C2_Witness ==
    /\ program = "test_sample" /\ pc = "sample_found"
    /\ LastCall.op = "search" /\ LastCall.outcome = "none"
    /\ album_link = PyNone

\* The artist, album and date of each record.
Projection(rs) == [k \in 1..Len(rs) |-> <<rs[k][1], rs[k][2], rs[k][5]>>]

RECURSIVE ExpectedUpTo(_)
\* The artist, album and date of the entries 1..k whose title parses, in the
\* order of the feed.
ExpectedUpTo(k) ==
    IF k = 0 THEN <<>>
    ELSE LET p == clean_title(fetcher, entry_get(entries[k], "title"))
         IN  IF p = None THEN ExpectedUpTo(k - 1)
             ELSE Append(ExpectedUpTo(k - 1),
                         <<p[1], p[2], parse_date(entry_get(entries[k], "published")).ret>>)

C3_InFeedOrder == InProcessFeed => Projection(results) = ExpectedUpTo(EntriesDone)

C3_AppendOnly ==
    /\ InFeedLoop =>
          \/ results' = results
          \/ /\ pc = "append"
             /\ Len(results') = Len(results) + 1
             /\ SubSeq(results', 1, Len(results)) = results
    /\ (program = "getmusic" /\ pc = "return_results") =>
          \/ UNCHANGED vars
          \/ IF fetcher = "AlbumFetcher"
             THEN aaj_results' = PyList(results)
             ELSE jp_results' = PyList(results)
    /\ aaj_results # PyNone => aaj_results' = aaj_results
    /\ jp_results # PyNone => jp_results' = jp_results

\* C3: the records are in the order of the feed's entries (the artist, album and
\* date of the records are those of the parsed entries, in feed order); the
\* sequence changes only by a record being appended, the records before it
\* staying as they are; and the sequence returned is handed over unchanged.
C3_OrderPreserved == [](C3_InFeedOrder) /\ [][C3_AppendOnly]_vars

\* C3 witness: process_feed returns two records with different artists.
C3_Witness ==
    /\ program = "getmusic" /\ pc = "return_results"
    /\ Len(results) = 2
    /\ results[1][1] # results[2][1]

\* C4: no error of a catalog search or of a conversion leaves the step: neither
\* request ends in an exception that propagates, and no exception of the
\* response handling (AttributeError, KeyError, TypeError) reaches the caller.
C4_LookupErrorsAreCaught ==
    /\ \A j \in 1..Len(callLog) :
          callLog[j].op \in {"search", "convert"} => callLog[j].outcome # "error"
    /\ raised \notin {"AttributeError", "KeyError", "TypeError"}

\* C5: a conversion request is made only after a pause of 6 seconds that
\* follows the call before it (also on the first conversion of a run and when
\* the request then fails), so any two conversion requests of a run are at
\* least 6 seconds apart.
C5_SixSecondsBeforeEachConversion ==
    /\ pc = "convert_request" => (callLog # <<>> /\ now >= LastCall.at + 6)
    /\ \A j \in 1..Len(callLog) :
          callLog[j].op = "convert" =>
              /\ j > 1
              /\ callLog[j].at >= callLog[j - 1].at + 6
              /\ \A i \in 1..(j - 1) :
                    callLog[i].op = "convert" => callLog[j].at - callLog[i].at >= 6

\* C5 witness: two conversion requests in one run, one for each feed source.
C5_Witness ==
    \E i, j \in 1..Len(callLog) :
        /\ i < j
        /\ callLog[i].op = "convert" /\ callLog[j].op = "convert"
        /\ callLog[i].fetcher # callLog[j].fetcher

C6_AppendStep ==
    (program = "getmusic" /\ pc = "append" /\ Truthy(apple_url) /\ ~Truthy(album_link)) =>
        \/ UNCHANGED vars
        \/ /\ Len(results') = Len(results) + 1
           /\ results'[Len(results')][4] = apple_url
           /\ results'[Len(results')][3] = EmptyStr

\* C6: when the search returned a link and the conversion returned none, the
\* record appended for the entry has the search's link as its source-service
\* link and the empty string as its universal link.
C6_KeepsCatalogLink == [][C6_AppendStep]_vars

\* C6 witness: a record with an empty universal link and the catalog link.
C6_Witness ==
    /\ program = "getmusic" /\ pc = "for_entry"
    /\ results # <<>>
    /\ LastResult[3] = EmptyStr /\ LastResult[4] = PyStr(AppleUrl)
    /\ LastCall.op = "convert" /\ LastCall.outcome = "none"

\* C7: taking and normalizing the title and the published date of an entry never
\* raises: the date block of process_feed ends in no exception.
C7_DateNeverRaises == raised # "IndexError"

\* A fetch of the feed of class cls raised.
FetchFailed(cls) ==
    \E j \in 1..Len(callLog) :
        /\ callLog[j].op = "fetch"
        /\ callLog[j].fetcher = cls
        /\ callLog[j].outcome = "error"

Fetched(cls) ==
    \E j \in 1..Len(callLog) : callLog[j].op = "fetch" /\ callLog[j].fetcher = cls

\* C8: a feed-fetch error is not fatal.  The exception never propagates; the
\* feed that failed has no entries, no results and causes no search or
\* conversion request; the second source is still fetched unless it is skipped;
\* and a run in which nothing else raised ends with the output written and exit
\* code 0.
C8_FetchErrorNotFatal ==
    /\ raised # "URLError"
    /\ (InProcessFeed /\ FetchFailed(fetcher)) => (entries = <<>> /\ results = <<>>)
    /\ \A j \in 1..Len(callLog) :
          callLog[j].op \in {"search", "convert"} => ~FetchFailed(callLog[j].fetcher)
    /\ (FetchFailed("AlbumFetcher") /\ aaj_results # PyNone) => aaj_results = PyList(<<>>)
    /\ (FetchFailed("JazzProfilesFetcher") /\ jp_results # PyNone) => jp_results = PyList(<<>>)
    /\ (program = "getmusic" /\ pc \in {"generate", "exit"}
        /\ raised \in {"none", "OSError"} /\ ~args.skip_jazz_profiles) =>
          (Fetched("AlbumFetcher") /\ Fetched("JazzProfilesFetcher"))
    /\ (program = "getmusic" /\ pc = "exit" /\ raised = "none") =>
          (exit_code = 0 /\ output.format = args.format)

\* C8 witness: the first feed's fetch raised, and the run ended with exit code
\* 0 and an HTML output that holds a record of the second source.
C8_Witness ==
    /\ program = "getmusic" /\ pc = "exit" /\ exit_code = 0
    /\ FetchFailed("AlbumFetcher")
    /\ output.format = "html"
    /\ output.results = <<>>
    /\ output.jazz_profiles_results.v # <<>>

\* main has written the Markdown file and returned 0.
MarkdownWritten ==
    program = "getmusic" /\ pc = "exit" /\ exit_code = 0 /\ output.format = "markdown"

\* The lines of the file after its head.
RecordLines == SubSeq(output.markdown, Len(MarkdownHead) + 1, Len(output.markdown))

AllLabel == <<"[", "A", "l", "l", "]">>
AppleLabel == <<"[", "A", "p", "p", "l", "e", "]">>

\* C12: generate_markdown writes one list line per record, in order, with the
\* record's artist and album and the two link labels; and for a link field
\* that is empty the line holds no link with an empty target: the label is
\* not followed by "()".
C12_MarkdownFallsBackToNoLink ==
    (MarkdownWritten /\ output.results # <<>>) =>
        /\ Len(RecordLines) = Len(output.results)
        /\ \A k \in 1..Len(output.results) :
              LET record == output.results[k]
                  line == RecordLines[k]
              IN  /\ OccursAt(line, <<"-", " ", "*", "*">> \o record[1], 1)
                  /\ str_contains(line, record[2] \o <<"*", "*">>)
                  /\ str_contains(line, AllLabel)
                  /\ str_contains(line, AppleLabel)
                  /\ record[3] = EmptyStr => ~str_contains(line, AllLabel \o <<"(", ")">>)
                  /\ record[4] = EmptyStr => ~str_contains(line, AppleLabel \o <<"(", ")">>)

\* The requests of the log: the searches and the conversions.
Requests == {j \in 1..Len(callLog) : callLog[j].op \in {"search", "convert"}}

\* C13: no request is made again.  Of the searches of one source, and of its
\* conversions, each is for a later entry than the one before, so an entry has
\* at most one of each; every request is for an entry the loop has taken, and
\* a request just made (the last call of the log, which every request is when
\* it is made) is for an entry whose title parses; when a request failed (its exception was caught in the
\* resolver) it is the last call of the log and the loop is on its way to the
\* next entry, with no request pending; and after a request whose exception
\* left the resolver there is no call at all.
C13_NoRetries ==
    /\ \A i, j \in Requests :
          (i < j /\ callLog[i].fetcher = callLog[j].fetcher) =>
              /\ callLog[i].op = callLog[j].op => callLog[i].entry < callLog[j].entry
              /\ callLog[i].outcome # "error"
    /\ InProcessFeed =>
          /\ \A j \in Requests : callLog[j].fetcher = fetcher => callLog[j].entry \in 1..idx
          /\ (callLog # <<>> /\ Len(callLog) \in Requests /\ LastCall.fetcher = fetcher) =>
                ParsesAt(LastCall.entry)
    /\ caught # "none" =>
          /\ pc = AfterResolve
          /\ LastCall.op \in {"search", "convert"}
          /\ LastCall.entry = idx /\ LastCall.outcome = "none"

\* C13 witness: the search of the first entry found nothing, the conversion of
\* the second has just failed with a connection error, and the log holds one
\* search for each entry and the one conversion.
C13_Witness ==
    /\ program = "getmusic" /\ pc = "append" /\ idx = 2
    /\ caught = "ConnectionError"
    /\ Len(callLog) = 4
    /\ callLog[2].op = "search" /\ callLog[2].entry = 1 /\ callLog[2].outcome = "none"
    /\ callLog[3].op = "search" /\ callLog[3].entry = 2 /\ callLog[3].outcome = "ok"
    /\ callLog[4].op = "convert" /\ callLog[4].entry = 2 /\ callLog[4].outcome = "none"

\* The records process_feed has made: those of the run in progress and those
\* main keeps of the runs that returned.
RecordsMade ==
    IF program # "getmusic" THEN {}
    ELSE {results[k] : k \in 1..Len(results)}
            \cup {aaj_results.v[k] : k \in 1..Len(aaj_results.v)}
            \cup {jp_results.v[k] : k \in 1..Len(jp_results.v)}

\* C14: in every record process_feed makes both link fields are strings, never
\* None, and a record with a non-empty universal link has a non-empty
\* source-service link.
C14_LinksAreStringsAndPaired ==
    \A record \in RecordsMade :
        /\ Len(record) = 5
        /\ record[3].t = "str" /\ record[4].t = "str"
        /\ record[3].v # <<>> => record[4].v # <<>>

\* C14 witness: process_feed returns a record with both links and a record
\* with the source-service link alone.
C14_Witness ==
    /\ program = "getmusic" /\ pc = "return_results"
    /\ Len(results) = 2
    /\ results[1][3].v # <<>> /\ results[1][4].v # <<>>
    /\ results[2][3] = EmptyStr /\ results[2][4].v # <<>>

(***************************************************************************)
(* Properties of the two title parsers, under SpecParse.                   *)
(***************************************************************************)
\* The halves of c around the separator of length n at i, trimmed; None when
\* a half is empty.
PairAt(c, i, n) ==
    LET left  == str_strip(SubSeq(c, 1, i - 1))
        right == str_strip(SubSeq(c, i + n, Len(c)))
    IN  IF left = <<>> \/ right = <<>> THEN None ELSE <<left, right>>

Colons(c) == {i \in 1..Len(c) : c[i] = ":"}
Hyphens(c) == {i \in 1..Len(c) : OccursAt(c, <<" ", "-", " ">>, i)}
\* The places of a "by" (in any case) between whitespace, with text on both sides.
Bys(c) ==
    {b \in 2..(Len(c) - 2) :
        /\ lower_char(c[b]) = "b" /\ lower_char(c[b + 1]) = "y"
        /\ c[b - 1] \in Whitespace /\ c[b + 2] \in Whitespace
        /\ PairAt(c, b, 2) # None}

ColonPair(c) == IF Colons(c) = {} THEN None ELSE PairAt(c, SetMin(Colons(c)), 1)
HyphenPair(c) == IF Hyphens(c) = {} THEN None ELSE PairAt(c, SetMin(Hyphens(c)), 3)
\* <album> by <artist>
ByPair(c) ==
    IF ~str_contains(str_lower(c), <<" ", "b", "y", " ">>) \/ Bys(c) = {} THEN None
    ELSE LET pair == PairAt(c, SetMin(Bys(c)), 2) IN <<pair[2], pair[1]>>

CleanedA == str_strip(remove_patterns(AlbumFetcher_REMOVE_PATTERNS, 1, title))
CleanedB == str_strip(remove_patterns(JazzProfilesFetcher_REMOVE_PATTERNS, 1, title))

\* C9: Strategy A.  With the noise patterns removed and the title trimmed: no
\* colon, no result; otherwise the artist is the trimmed text before the first
\* colon (so it holds no colon) and the album the trimmed text after it, later
\* colons included; and there is no result when a half is empty.
C9_FirstColonSplit ==
    (program = "parse" /\ pc = "parsed" /\ fetcher = "AlbumFetcher") =>
        /\ parsed = ColonPair(CleanedA)
        /\ Colons(CleanedA) = {} => parsed = None
        /\ parsed # None =>
              /\ Len(parsed) = 2
              /\ Colons(parsed[1]) = {}
              /\ parsed[1] # <<>> /\ parsed[2] # <<>>
              /\ str_strip(parsed[1]) = parsed[1] /\ str_strip(parsed[2]) = parsed[2]

\* C9 witness: a title with two colons is parsed, and the album keeps the
\* second colon.
C9_Witness ==
    /\ program = "parse" /\ pc = "parsed" /\ fetcher = "AlbumFetcher"
    /\ parsed # None
    /\ Colons(parsed[2]) # {}

\* C10: Strategy B returns the colon split when it gives two non-empty halves,
\* else the split at the first " - " when that does, else <album> by <artist>
\* when that matches, else nothing; so a title that both a colon and a " - "
\* split is split at the colon.
C10_PriorityOrder ==
    (program = "parse" /\ pc = "parsed" /\ fetcher = "JazzProfilesFetcher") =>
        parsed = IF ColonPair(CleanedB) # None THEN ColonPair(CleanedB)
                 ELSE IF HyphenPair(CleanedB) # None THEN HyphenPair(CleanedB)
                 ELSE ByPair(CleanedB)

\* C10 witness: a title that the colon and the " - " both split, in different
\* ways, parsed as the colon splits it.
C10_Witness ==
    /\ program = "parse" /\ pc = "parsed" /\ fetcher = "JazzProfilesFetcher"
    /\ ColonPair(CleanedB) # None /\ HyphenPair(CleanedB) # None
    /\ ColonPair(CleanedB) # HyphenPair(CleanedB)
    /\ parsed = ColonPair(CleanedB)

(***************************************************************************)
(* Properties of convert_url_to_album_link, under SpecConvert.             *)
(***************************************************************************)
KnownRegions == {<<"u", "s">>, <<"u", "k">>, <<"c", "a">>}

\* The places of u where a path segment that is a known country code starts.
RegionSegments(u) ==
    {i \in 1..Len(u) : \E r \in KnownRegions : OccursAt(u, <<"/">> \o r \o <<"/">>, i)}

\* Those of them that stand right in front of the service-type segment.
BeforeServiceType(u) == {i \in RegionSegments(u) : OccursAt(u, <<"/", "i", "/">>, i + 3)}

\* u without the path segment that starts at i.
WithoutSegment(u, i) == SubSeq(u, 1, i - 1) \o SubSeq(u, i + 3, Len(u))

\* C11: on a successful conversion the link returned is a string; it is the
\* pageUrl unchanged when no known country code (us, uk, ca) stands right in
\* front of the service-type segment /i/, and when the one country code of the
\* path stands there it is the pageUrl without that segment (/us/i/1 becomes
\* /i/1, and the same for uk and ca).
C11_RegionCodeStripped ==
    (program = "convert" /\ pc = "converted" /\ page_url # <<>>) =>
        /\ album_link.t = "str"
        /\ BeforeServiceType(page_url) = {} => album_link.v = page_url
        /\ (Cardinality(RegionSegments(page_url)) = 1 /\ BeforeServiceType(page_url) # {}) =>
              album_link.v = WithoutSegment(page_url, SetMin(BeforeServiceType(page_url)))

\* C11 witness: the pageUrl l/uk/i/1 was converted to l/i/1.
C11_Witness ==
    /\ program = "convert" /\ pc = "converted"
    /\ page_url = <<"l", "/", "u", "k", "/", "i", "/", "1">>
    /\ album_link = PyStr(<<"l", "/", "i", "/", "1">>)

====
